---- MODULE Spec2Model ----
(***************************************************************************)
(* Model of sqlalchemy_utils/functions/batch_fetch.py.                     *)
(*                                                                         *)
(* The mapped schema the model runs on (the ORM is an external             *)
(* collaborator; only what batch_fetch.py reads of it is modelled):        *)
(*                                                                         *)
(*   Parent(id, rank)                                                      *)
(*     children : one-to-many  -> Child  via Child.parent_id               *)
(*     others   : one-to-many  -> Child  via Child.other_id                *)
(*     tags     : many-to-many -> Child  via tag(p_id, c_id)               *)
(*   Child(id, parent_id, other_id, rank)                                  *)
(*     parent   : many-to-one  -> Parent via Child.parent_id               *)
(*     owners   : many-to-many -> Parent via tag(c_id, p_id)               *)
(*                                                                         *)
(* Lists are sequences of primary keys; a query without ORDER BY returns   *)
(* its rows in table order (ascending id, association rows in insertion    *)
(* order).                                                                 *)
(***************************************************************************)
EXTENDS Integers, Sequences, FiniteSets, TLC

VARIABLES db, attrs, root_model, entities, attr_paths,
          pc, k, fetchers, queries, gets, err, log

vars == <<db, attrs, root_model, entities, attr_paths,
          pc, k, fetchers, queries, gets, err, log>>

\* ---------------------------------------------------------------- bounds

NParents == 2
NChildren == 2
MaxAssoc == 2
MaxPaths == 2

\* Python's None, SQL's NULL.
NULL == 0

PIds == 1..NParents
CIds == 1..NChildren
\* A foreign key may be NULL, point at a row, or dangle (NParents + 1).
FKVals == 0..(NParents + 1)
Keys == 0..(NParents + NChildren + 1)

Models == {"Parent", "Child"}
Ids(model) == IF model = "Parent" THEN PIds ELSE CIds
Objects == ({"Parent"} \X PIds) \cup ({"Child"} \X CIds)

RelKeys == {"children", "others", "tags", "parent", "owners"}

\* ------------------------------------------------------- mapper metadata

\* The columns of a mapped class.
Columns(model) ==
    IF model = "Parent" THEN {"id", "rank"}
    ELSE {"id", "parent_id", "other_id", "rank"}

\* The relationship attributes of a mapped class.
Relationships(model) ==
    IF model = "Parent" THEN {"children", "others", "tags"}
    ELSE {"parent", "owners"}

HasAttr(model, key) == key \in Columns(model) \cup Relationships(model)

\* RelationshipProperty of relationship `key`: mapper.class_, direction,
\* secondary, local_columns[0].name, remote_side names, back_populates
\* ("" is None).  For a many-to-many relationship remote_side holds both
\* association columns; fk_parent is the one whose foreign key targets the
\* parent's table.
Property(key) ==
    CASE key = "children" ->
           [key |-> "children", parent |-> "Parent", target |-> "Child",
            direction |-> "ONETOMANY", secondary |-> FALSE, local |-> "id",
            remote |-> "parent_id", fk_parent |-> "", back_populates |-> "parent"]
      [] key = "others" ->
           [key |-> "others", parent |-> "Parent", target |-> "Child",
            direction |-> "ONETOMANY", secondary |-> FALSE, local |-> "id",
            remote |-> "other_id", fk_parent |-> "", back_populates |-> ""]
      [] key = "tags" ->
           [key |-> "tags", parent |-> "Parent", target |-> "Child",
            direction |-> "MANYTOMANY", secondary |-> TRUE, local |-> "id",
            remote |-> "c_id", fk_parent |-> "p_id", back_populates |-> "owners"]
      [] key = "parent" ->
           [key |-> "parent", parent |-> "Child", target |-> "Parent",
            direction |-> "MANYTOONE", secondary |-> FALSE, local |-> "parent_id",
            remote |-> "id", fk_parent |-> "", back_populates |-> "children"]
      [] OTHER ->
           [key |-> "owners", parent |-> "Child", target |-> "Parent",
            direction |-> "MANYTOMANY", secondary |-> TRUE, local |-> "id",
            remote |-> "p_id", fk_parent |-> "c_id", back_populates |-> "tags"]

\* A Path.__init__ without the isinstance check.
AnyProperty(model, key) == TRUE

\* isinstance(prop, RelationshipProperty)
IsRelationshipProperty(model, key) == key \in Relationships(model)

\* --------------------------------------------------------------- database

ChildRow == [parent_id : FKVals, other_id : FKVals]
TagRow == [p_id : PIds, c_id : CIds]

\* getattr(entity, column_name) on a loaded entity of class `model`.
Col(model, id, col) ==
    IF col = "id" THEN id
    ELSE IF model = "Child" /\ col = "parent_id" THEN db.child[id].parent_id
    ELSE IF model = "Child" /\ col = "other_id" THEN db.child[id].other_id
    ELSE NULL

\* SQL `x IN (values)`: a NULL x matches nothing, a NULL among the values
\* matches nothing.
InList(x, values) == x # NULL /\ x \in values

Range(s) == {s[i] : i \in DOMAIN s}

RECURSIVE SortedSeq(_)
SortedSeq(S) ==
    IF S = {} THEN <<>>
    ELSE LET m == CHOOSE x \in S : \A y \in S : x <= y
         IN <<m>> \o SortedSeq(S \ {m})

\* The association row <<entity, parent key>> pairs of one many-to-many
\* relationship: the secondary table joined to the related table.
TagPairs(prop) ==
    [i \in DOMAIN db.tag |->
        IF prop.fk_parent = "p_id"
        THEN [entity |-> db.tag[i].c_id, parent_id |-> db.tag[i].p_id]
        ELSE [entity |-> db.tag[i].p_id, parent_id |-> db.tag[i].c_id]]

\* What the ORM's own per-entity lazy load of relationship `prop` on object
\* <<model, id>> yields: a list for a to-many relationship, for a to-one the
\* row or None.
LazyLoadList(seq) == [kind |-> "list", val |-> seq]
LazyLoadOne(fk, ids) ==
    IF fk \in ids THEN [kind |-> "one", val |-> <<fk>>]
    ELSE [kind |-> "none", val |-> <<>>]
TagEntities(rows) == [i \in DOMAIN rows |-> rows[i].entity]
TagRowsOf(pairs, id) == LET mine(r) == r.parent_id = id IN SelectSeq(pairs, mine)
LazyLoadProp(model, id, prop) ==
    IF prop.secondary
    THEN LazyLoadList(TagEntities(TagRowsOf(TagPairs(prop), id)))
    ELSE IF prop.direction = "MANYTOONE"
    THEN LazyLoadOne(Col(model, id, prop.local), Ids(prop.target))
    ELSE LazyLoadList(SortedSeq({r \in Ids(prop.target) :
                                   Col(prop.target, r, prop.remote) = id}))
LazyLoad(model, id, key) == LazyLoadProp(model, id, Property(key))

Unset == [kind |-> "unset", val |-> <<>>]

\* ----------------------------------------------------------------- Fetcher

\* defaultdict(list) / defaultdict(lambda: None): a missing key reads as the
\* default, <<>> (the empty list, or None for a many-to-one fetcher).
EmptyDict == [key \in Keys |-> <<>>]

\* Path.fetcher_class
FetcherClass(prop) ==
    IF prop.secondary THEN "ManyToManyFetcher"
    ELSE IF prop.direction = "MANYTOONE" THEN "ManyToOneFetcher"
    ELSE "OneToManyFetcher"

\* Fetcher.remote_column_name, and ManyToManyFetcher's override
RemoteColumnName(f) ==
    IF f.cls = "ManyToManyFetcher" THEN f.prop.fk_parent ELSE f.prop.remote

\* A key read from the entity's primary key instead of its local column.
LocalValuesFromPk(f, entity) == entity

\* Fetcher.local_values
LocalValues(f, entity) == Col(f.parent_model, entity, f.prop.local)

\* Fetcher.local_values_list
LocalValuesList(f) == [i \in DOMAIN f.entities |-> LocalValues(f, f.entities[i])]

\* Fetcher.condition, as a predicate on a row of the related table
Condition(f, row) ==
    InList(Col(f.prop.target, row, RemoteColumnName(f)), Range(LocalValuesList(f)))

\* Fetcher.related_entities: the rows one execution of the query returns
RelatedEntities(f) == SortedSeq({r \in Ids(f.prop.target) : Condition(f, r)})

\* A many-to-many query that returns each (entity, parent key) pair once.
ManyToManyDistinctEntities(f) ==
    LET wanted(r) == InList(r.parent_id, Range(LocalValuesList(f)))
        rows == SelectSeq(TagPairs(f.prop), wanted)
        first(i) == \A j \in 1..(i - 1) : rows[j] # rows[i]
        keep == SortedSeq({i \in DOMAIN rows : first(i)})
    IN [n \in DOMAIN keep |-> rows[keep[n]]]

\* ManyToManyFetcher.related_entities: (entity, parent key) per association row
ManyToManyRelatedEntities(f) ==
    LET wanted(r) == InList(r.parent_id, Range(LocalValuesList(f)))
    IN SelectSeq(TagPairs(f.prop), wanted)

\* OneToManyFetcher.append_entity
OneToManyAppend(f, key, row) == [f EXCEPT !.parent_dict[key] = Append(@, row)]

\* ManyToOneFetcher.append_entity
ManyToOneAppend(f, key, row) == [f EXCEPT !.parent_dict[key] = <<row>>]

\* fetcher.append_entity(entity), by the fetcher's class
AppendEntity(f, row) ==
    IF f.cls = "ManyToOneFetcher"
    THEN ManyToOneAppend(f, Col(f.prop.target, row, RemoteColumnName(f)), row)
    ELSE OneToManyAppend(f, Col(f.prop.target, row, RemoteColumnName(f)), row)

\* Fetcher.fetch: append_entity for every row of the query
RECURSIVE FetcherFetch(_, _)
FetcherFetch(f, rows) ==
    IF rows = <<>> THEN f
    ELSE FetcherFetch(AppendEntity(f, Head(rows)), Tail(rows))

\* ManyToManyFetcher.fetch
RECURSIVE ManyToManyFetch(_, _)
ManyToManyFetch(f, rows) ==
    IF rows = <<>> THEN f
    ELSE ManyToManyFetch(
           [f EXCEPT !.parent_dict[Head(rows).parent_id] = Append(@, Head(rows).entity)],
           Tail(rows))

\* A populate that skips the entities whose key fetched nothing.
DictValueSkipsMissing(cls, v) ==
    IF v = <<>> THEN [kind |-> "unset", val |-> <<>>]
    ELSE IF cls = "ManyToOneFetcher" THEN [kind |-> "one", val |-> v]
    ELSE [kind |-> "list", val |-> v]

\* The value Fetcher.populate hands to set_committed_value, from the
\* dictionary entry v = self.parent_dict[self.local_values(entity)]
DictValue(cls, v) ==
    IF cls = "ManyToOneFetcher"
    THEN (IF v = <<>> THEN [kind |-> "none", val |-> <<>>]
          ELSE [kind |-> "one", val |-> v])
    ELSE [kind |-> "list", val |-> v]

PopulatedValue(f, entity) == DictValue(f.cls, f.parent_dict[LocalValues(f, entity)])

\* set_committed_value(entity, key, value)
SetCommittedValue(a, model, id, key, value) ==
    [a EXCEPT ![<<model, id>>][key] = value]

\* The first loop of Fetcher.populate
RECURSIVE PopulateForward(_, _, _)
PopulateForward(f, a, i) ==
    IF i > Len(f.entities) THEN a
    ELSE PopulateForward(
           f,
           SetCommittedValue(a, f.parent_model, f.entities[i], f.prop.key,
                             PopulatedValue(f, f.entities[i])),
           i + 1)

\* -------------------------------------------------------------------- Path

\* The outcome of Path.parse: the error raised ("" is none), the fetcher of
\* the Path it built, and the session as the lazy loads it caused left it.
Parsed(e, fs, a, q) == [err |-> e, fetchers |-> fs, attrs |-> a, queries |-> q]

\* A raise out of Path.parse: no fetcher; lazy loads already done stay done.
ParseError(e, st) == Parsed(e, <<>>, st.attrs, st.queries)

\* Fetcher.__init__ (parent_dict: ManyToOneFetcher.__init__ changes only the
\* default, which a read applies)
NewFetcher(ents, model, prop, backrefs) ==
    [cls |-> FetcherClass(prop), prop |-> prop, entities |-> ents,
     parent_model |-> model, populate_backrefs |-> backrefs,
     parent_dict |-> EmptyDict]

\* Path.__init__: the relationship check, then self.fetcher_class(self).
\* fetcher_class reads prop.secondary, which only a RelationshipProperty has.
PathInit(ents, model, key, backrefs, st) ==
    IF ~IsRelationshipProperty(model, key) THEN ParseError("NotARelationship", st)
    ELSE IF key \notin Relationships(model) THEN ParseError("AttributeError", st)
    ELSE Parsed("", <<NewFetcher(ents, model, Property(key), backrefs)>>,
                st.attrs, st.queries)

\* One hop of a dotted path: the entities collected so far.
Hop(e, related, model, a, q) ==
    [err |-> e, related |-> related, model |-> model, attrs |-> a, queries |-> q]

\* getattr(entity, key) on a relationship attribute: the loaded value, or the
\* ORM's lazy load (one query, the attribute loaded afterwards).
GetAttr(a, model, id, key) ==
    IF a[<<model, id>>][key].kind = "unset"
    THEN [loaded |-> FALSE, value |-> LazyLoad(model, id, key)]
    ELSE [loaded |-> TRUE, value |-> a[<<model, id>>][key]]

AfterGetAttr(st, model, id, key, got) ==
    IF got.loaded THEN st
    ELSE [attrs |-> SetCommittedValue(st.attrs, model, id, key, got.value),
          queries |-> st.queries + 1]

RECURSIVE Extend(_, _, _, _, _)
RECURSIVE ExtendWith(_, _, _, _, _, _)
\* related_entities.extend(value): a list extends; an entity or None (a
\* to-one attribute) raises TypeError
ExtendWith(ents, model, key, st2, related, value) ==
    IF value.kind = "list"
    THEN Extend(Tail(ents), model, key, st2, related \o value.val)
    ELSE Hop("TypeError", <<>>, model, st2.attrs, st2.queries)

ExtendGot(ents, model, key, st, related, got) ==
    ExtendWith(ents, model, key, AfterGetAttr(st, model, Head(ents), key, got),
               related, got.value)

\* for entity in entities: related_entities.extend(getattr(entity, attrs[0]))
Extend(ents, model, key, st, related) ==
    IF ents = <<>>
    THEN Hop("", related, Property(key).target, st.attrs, st.queries)
    ELSE ExtendGot(ents, model, key, st, related,
                   GetAttr(st.attrs, model, Head(ents), key))

\* The loop of Path.parse over the leading segment of a dotted path
RelatedOf(ents, model, key, st) ==
    IF ents = <<>> THEN Hop("", <<>>, model, st.attrs, st.queries)
    ELSE IF ~HasAttr(model, key)
    THEN Hop("AttributeError", <<>>, model, st.attrs, st.queries)
    \* list.extend(<an integer column value>) raises TypeError
    ELSE IF key \in Columns(model)
    THEN Hop("TypeError", <<>>, model, st.attrs, st.queries)
    ELSE Extend(ents, model, key, st, <<>>)

\* Path.parse
RECURSIVE PathParse(_, _, _, _, _)
RECURSIVE PathParseNext(_, _, _)
PathParseNext(step, leaf, backrefs) ==
    IF step.err # "" THEN ParseError(step.err, step)
    ELSE PathParse(step.related, step.model, [leaf EXCEPT !.segs = Tail(@)],
                   backrefs, step)

PathParse(ents, model, leaf, backrefs, st) ==
    IF leaf.kind = "str"
    THEN IF Len(leaf.segs) > 1
         THEN PathParseNext(RelatedOf(ents, model, leaf.segs[1], st), leaf, backrefs)
         \* entities[0].__class__ of an empty list
         ELSE IF ents = <<>> THEN ParseError("IndexError", st)
         ELSE IF ~HasAttr(model, leaf.segs[1]) THEN ParseError("AttributeError", st)
         ELSE PathInit(ents, model, leaf.segs[1], backrefs, st)
    ELSE IF leaf.kind = "attr"
    THEN PathInit(ents, model, leaf.segs[1], backrefs, st)
    ELSE ParseError("UnknownPathType", st)

\* ------------------------------------------------------ FetchingCoordinator

\* The loop of FetchingCoordinator.__call__ over CompositePath.paths:
\* fetchers.append(Path.parse(entities, path, populate_backrefs).fetcher)
RECURSIVE ParseAll(_, _, _, _, _)
RECURSIVE ParseRest(_, _, _, _, _)
PrependFetchers(one, rest) ==
    IF rest.err # "" THEN rest ELSE [rest EXCEPT !.fetchers = one.fetchers \o @]

ParseRest(ents, model, paths, backrefs, one) ==
    IF one.err # "" THEN one
    ELSE PrependFetchers(one, ParseAll(ents, model, Tail(paths), backrefs, one))

ParseAll(ents, model, paths, backrefs, st) ==
    IF paths = <<>> THEN Parsed("", <<>>, st.attrs, st.queries)
    ELSE ParseRest(ents, model, paths, backrefs,
                   PathParse(ents, model, Head(paths), backrefs, st))

\* CompositeFetcher.__init__
CompositeInit(r) ==
    IF r.err # "" THEN r
    ELSE IF r.fetchers = <<>> THEN [r EXCEPT !.err = "IndexError"]
    ELSE IF \A i \in DOMAIN r.fetchers :
              r.fetchers[i].prop.target = r.fetchers[1].prop.target
    THEN r
    ELSE [r EXCEPT !.err = "IncompatibleFetcher", !.fetchers = <<>>]

\* FetchingCoordinator.__call__ up to the fetcher it builds.
CoordinatorParse(path, st) ==
    IF path.composite
    THEN CompositeInit(ParseAll(entities, root_model, path.paths, path.backrefs, st))
    ELSE PathParse(entities, root_model, path.paths[1], path.backrefs, st)

\* ------------------------------------------------------------------ fetch()

\* A fetch that asks once per entity of the batch (the N+1 pattern).
QueriesPerEntity(f) == Len(f.entities)

\* How many statements one iteration of a Query object executes.
QueriesPerIteration(f) == 1

\* CompositeFetcher.condition builds every sibling's condition with
\* getattr(self.path.model, self.remote_column_name): the related class must
\* have an attribute of that name.
ConditionBuilds(f) == HasAttr(f.prop.target, RemoteColumnName(f))

\* CompositeFetcher.related_entities: one query over the disjunction
CompositeRelatedEntities(fs) ==
    SortedSeq({r \in Ids(fs[1].prop.target) :
                 \E i \in DOMAIN fs : Condition(fs[i], r)})

\* The test of CompositeFetcher.fetch on one row for one sibling
CompositeApplies(f, row) == Col(f.prop.target, row, RemoteColumnName(f)) # NULL

\* The rows of the composite query one sibling takes
SiblingFetch(f, rows) ==
    LET applies(r) == CompositeApplies(f, r) IN FetcherFetch(f, SelectSeq(rows, applies))

\* CompositeFetcher.fetch: every row goes to every sibling whose remote
\* column is not None on it (the siblings' dictionaries are independent, so
\* the nested loop is one pass per sibling).
CompositeFetchRows(fs, rows) == [i \in DOMAIN fs |-> SiblingFetch(fs[i], rows)]
CompositeFetch(fs) == CompositeFetchRows(fs, CompositeRelatedEntities(fs))

Fetched(e, fs, q) == [err |-> e, fetchers |-> fs, queries |-> q]

\* fetcher.fetch() of FetchingCoordinator.__call__, for the fetcher built
\* from `path`
CoordinatorFetch(path, fs, q) ==
    IF path.composite
    THEN IF \E i \in DOMAIN fs : ~ConditionBuilds(fs[i])
         THEN Fetched("AttributeError", fs, q)
         ELSE Fetched("", CompositeFetch(fs), q + QueriesPerIteration(fs[1]))
    ELSE IF fs[1].cls = "ManyToManyFetcher"
    THEN Fetched("", <<ManyToManyFetch(fs[1], ManyToManyRelatedEntities(fs[1]))>>,
                 q + QueriesPerIteration(fs[1]))
    ELSE Fetched("", <<FetcherFetch(fs[1], RelatedEntities(fs[1]))>>,
                 q + QueriesPerIteration(fs[1]))

\* --------------------------------------------------------------- populate()

\* The parents Fetcher.populate_backrefs collects for one related entity:
\* one session.query(parent_model).get(parent_id) per row whose entity has
\* the same local_values as `entity`.
ParentIds(rows) == [i \in DOMAIN rows |-> rows[i].parent_id]
BackrefParents(f, rows, entity) ==
    LET same(r) == Col(f.prop.target, r.entity, f.prop.local)
                     = Col(f.prop.target, entity, f.prop.local)
    IN ParentIds(SelectSeq(rows, same))

\* The third loop of Fetcher.populate_backrefs
RECURSIVE SetBackrefs(_, _, _, _)
SetBackrefs(f, rows, a, i) ==
    IF i > Len(rows) THEN a
    ELSE SetBackrefs(
           f, rows,
           SetCommittedValue(a, f.prop.target, rows[i].entity, f.prop.back_populates,
                             [kind |-> "list",
                              val |-> BackrefParents(f, rows, rows[i].entity)]),
           i + 1)

\* Fetcher.populate_backrefs on ManyToManyFetcher's (entity, parent_id) rows:
\* the Query is iterated three times, so it executes three times, and every
\* row costs one session.query(parent_model).get(parent_id).
ManyToManyBackrefs(f, st, rows) ==
    IF rows = <<>> THEN [st EXCEPT !.queries = @ + 3 * QueriesPerIteration(f)]
    \* set_committed_value(entity, None, ...)
    ELSE IF f.prop.back_populates = ""
    THEN [st EXCEPT !.queries = @ + 3 * QueriesPerIteration(f),
                    !.gets = @ + Len(rows), !.err = "KeyError"]
    ELSE [st EXCEPT !.queries = @ + 3 * QueriesPerIteration(f),
                    !.gets = @ + Len(rows),
                    !.attrs = SetBackrefs(f, rows, @, 1)]

\* Fetcher.populate_backrefs on Fetcher.related_entities, whose rows are
\* single entities: `for entity, parent_id in related_entities` cannot
\* unpack the first row (TypeError); without rows the three loops only run
\* the query.
EntityBackrefs(f, st, rows) ==
    IF rows = <<>> THEN [st EXCEPT !.queries = @ + 3 * QueriesPerIteration(f)]
    ELSE [st EXCEPT !.queries = @ + QueriesPerIteration(f), !.err = "TypeError"]

\* Fetcher.populate_backrefs(self.related_entities)
PopulateBackrefs(f, st) ==
    IF f.cls = "ManyToManyFetcher"
    THEN ManyToManyBackrefs(f, st, ManyToManyRelatedEntities(f))
    ELSE EntityBackrefs(f, st, RelatedEntities(f))

\* Fetcher.populate
FetcherPopulate(f, st) ==
    IF f.populate_backrefs
    THEN PopulateBackrefs(f, [st EXCEPT !.attrs = PopulateForward(f, @, 1)])
    ELSE [st EXCEPT !.attrs = PopulateForward(f, @, 1)]

\* CompositeFetcher.populate (a single fetcher is the one-sibling case)
RECURSIVE CoordinatorPopulate(_, _)
RECURSIVE PopulateRest(_, _)
PopulateRest(fs, one) ==
    IF one.err # "" THEN one ELSE CoordinatorPopulate(Tail(fs), one)

CoordinatorPopulate(fs, st) ==
    IF fs = <<>> THEN st ELSE PopulateRest(fs, FetcherPopulate(Head(fs), st))

\* ------------------------------------------------------------------ inputs

Str(segs) == [kind |-> "str", segs |-> segs]
Attr(key) == [kind |-> "attr", segs |-> <<key>>]
\* Neither a string nor an InstrumentedAttribute (a number, a nested wrapper).
Other == [kind |-> "other", segs |-> <<>>]

Plain(leaf) == [backrefs |-> FALSE, composite |-> FALSE, paths |-> <<leaf>>]
WithBackrefs(path) == [path EXCEPT !.backrefs = TRUE]
CompositePath(leaves) == [backrefs |-> FALSE, composite |-> TRUE, paths |-> leaves]

\* A batch_fetch without the `if entities:` guard.
AlwaysTruthy(list) == TRUE

\* bool(entities)
Truthy(list) == list # <<>>

\* -------------------------------------------------------------- state machine

InitAttrs == [o \in Objects |-> [key \in RelKeys |-> Unset]]

\* A call batch_fetch(entities, *attr_paths) about to run on a session whose
\* entities have no relationship attribute loaded.
InitWith(DBs, Calls) ==
    /\ db \in DBs
    /\ \E c \in Calls :
          root_model = c.model /\ entities = c.entities /\ attr_paths = c.paths
    /\ attrs = InitAttrs
    /\ pc = "call"
    /\ k = 0
    /\ fetchers = <<>>
    /\ queries = 0
    /\ gets = 0
    /\ err = ""
    /\ log = <<>>

\* batch_fetch: `if entities:` and the start of the loop over attr_paths
BatchFetch ==
    /\ pc = "call"
    /\ IF Truthy(entities) /\ attr_paths # <<>>
       THEN pc' = "parse" /\ k' = 1
       ELSE pc' = "returned" /\ k' = k
    /\ UNCHANGED <<db, attrs, root_model, entities, attr_paths,
                   fetchers, queries, gets, err, log>>

ParseDone(r) ==
    /\ attrs' = r.attrs
    /\ queries' = r.queries
    /\ fetchers' = r.fetchers
    /\ err' = r.err
    /\ pc' = IF r.err # "" THEN "raised" ELSE "fetch"

\* FetchingCoordinator.__call__, up to the fetcher
Parse ==
    /\ pc = "parse"
    /\ ParseDone(CoordinatorParse(attr_paths[k], [attrs |-> attrs, queries |-> queries]))
    /\ log' = Append(log, <<"parse", k>>)
    /\ UNCHANGED <<db, root_model, entities, attr_paths, k, gets>>

FetchDone(r) ==
    /\ fetchers' = r.fetchers
    /\ queries' = r.queries
    /\ err' = r.err
    /\ pc' = IF r.err # "" THEN "raised" ELSE "populate"

\* fetcher.fetch()
Fetch ==
    /\ pc = "fetch"
    /\ FetchDone(CoordinatorFetch(attr_paths[k], fetchers, queries))
    /\ log' = Append(log, <<"fetch", k>>)
    /\ UNCHANGED <<db, attrs, root_model, entities, attr_paths, k, gets>>

\* A loop that skips every other specifier.
SkipPath(i) == i + 2

\* The next position of `for attr_path in attr_paths`
NextPath(i) == i + 1

PopulateDone(r) ==
    /\ attrs' = r.attrs
    /\ queries' = r.queries
    /\ gets' = r.gets
    /\ err' = r.err
    /\ IF r.err # "" THEN pc' = "raised" /\ k' = k
       ELSE IF NextPath(k) > Len(attr_paths) THEN pc' = "returned" /\ k' = k
       ELSE pc' = "parse" /\ k' = NextPath(k)

\* fetcher.populate(), then the next attr_path or the return
Populate ==
    /\ pc = "populate"
    /\ PopulateDone(CoordinatorPopulate(fetchers,
          [attrs |-> attrs, queries |-> queries, gets |-> gets, err |-> ""]))
    /\ log' = Append(log, <<"populate", k>>)
    /\ UNCHANGED <<db, root_model, entities, attr_paths, fetchers>>

Next == BatchFetch \/ Parse \/ Fetch \/ Populate

\* ------------------------------------------------------ bounded input sets

\* Child tables whose foreign keys range over the given values.
ChildTables(parentFKs, otherFKs) ==
    [CIds -> [parent_id : parentFKs, other_id : otherFKs]]

RECURSIVE SeqsUpTo(_, _)
SeqsUpTo(S, n) ==
    IF n = 0 THEN {<<>>}
    ELSE SeqsUpTo(S, n - 1) \cup {Append(s, x) : s \in SeqsUpTo(S, n - 1), x \in S}

\* Association tables of at most MaxAssoc rows (duplicate rows allowed).
TagTables == SeqsUpTo(TagRow, MaxAssoc)

\* The calls batch_fetch(entities, *paths) whose entities are the first n
\* rows of `model`'s table (n = 0: the empty list) and whose specifiers are
\* at most `most` members of `universe`.
Calls(model, universe, most) ==
    {[model |-> model, entities |-> [i \in 1..n |-> i], paths |-> l] :
        n \in 0..Cardinality(Ids(model)), l \in SeqsUpTo(universe, most)}

\* Databases with only Child.parent_id set, or only association rows.
ChildSlice == {[child |-> c, tag |-> <<>>] : c \in ChildTables(FKVals, {NULL})}
TagSlice ==
    {[child |-> c, tag |-> t] : c \in ChildTables({NULL}, {NULL}), t \in TagTables}

\* One specifier per call, every relationship shape, on either class.
ParentPaths ==
    {Plain(Str(<<"children">>)), Plain(Attr("children")), Plain(Str(<<"tags">>)),
     Plain(Str(<<"rank">>)), Plain(Other),
     WithBackrefs(Plain(Str(<<"children">>))), WithBackrefs(Plain(Str(<<"tags">>)))}
ChildPaths ==
    {Plain(Str(<<"parent">>)), Plain(Attr("parent")), Plain(Str(<<"rank">>))}

Init ==
    InitWith(ChildSlice \cup TagSlice,
             Calls("Parent", ParentPaths, 1) \cup Calls("Child", ChildPaths, 1))
Spec == Init /\ [][Next]_vars

\* Several specifiers per call: a relationship, scalar columns, an unknown
\* specifier and dotted paths over what an earlier specifier loaded.
SeqDBs == {[child |-> c, tag |-> <<>>] : c \in ChildTables(0..NParents, {NULL})}
SeqPaths ==
    {Plain(Str(<<"children">>)), Plain(Attr("children")), Plain(Str(<<"rank">>)),
     WithBackrefs(Plain(Attr("rank"))), Plain(Other),
     Plain(Str(<<"children", "parent">>))}
SeqChildPaths == {Plain(Str(<<"parent">>)), Plain(Str(<<"parent", "children">>))}

InitSeq ==
    InitWith(SeqDBs, Calls("Parent", SeqPaths, MaxPaths)
                       \cup Calls("Child", SeqChildPaths, MaxPaths))
SpecSeq == InitSeq /\ [][Next]_vars

\* One composite specifier per call, on Parent entities.
CompositeDBs ==
    {[child |-> c, tag |-> t] :
        c \in ChildTables(0..NParents, 0..NParents), t \in TagTables}
CompositePaths ==
    {CompositePath(<<Str(<<"children">>), Str(<<"others">>)>>),
     CompositePath(<<Attr("others"), Attr("children")>>),
     CompositePath(<<Str(<<"children">>), Str(<<"tags">>)>>),
     CompositePath(<<Str(<<"children">>), Str(<<"rank">>)>>),
     WithBackrefs(CompositePath(<<Str(<<"children">>), Str(<<"others">>)>>))}

InitComposite == InitWith(CompositeDBs, Calls("Parent", CompositePaths, 1))
SpecComposite == InitComposite /\ [][Next]_vars

\* ------------------------------------------------------------------ claims

\* A specifier that is one relationship attribute of the entities' class,
\* given as a string or as an attribute handle.
IsSingleHop(p) ==
    /\ ~p.composite
    /\ p.paths[1].kind \in {"str", "attr"}
    /\ Len(p.paths[1].segs) = 1
KeyOf(p) == p.paths[1].segs[1]
IsRelPath(p) == IsSingleHop(p) /\ KeyOf(p) \in Relationships(root_model)
ClsOf(p) == FetcherClass(Property(KeyOf(p)))
IsScalarPath(p) == IsSingleHop(p) /\ KeyOf(p) \in Columns(root_model)
Finished == pc \in {"returned", "raised"}
Populated(j) == <<"populate", j>> \in Range(log)
Loaded(model, id, key) == attrs[<<model, id>>][key]
Count(x, seq) == Cardinality({i \in DOMAIN seq : seq[i] = x})

\* C1: a call on a non-empty batch with one one-to-many specifier (string or
\* attribute handle) returns after exactly one query, whatever the size of
\* the batch.
C1_OneToManyIsOneQuery ==
    (/\ Finished
     /\ entities # <<>>
     /\ Len(attr_paths) = 1
     /\ IsRelPath(attr_paths[1])
     /\ ~attr_paths[1].backrefs
     /\ ClsOf(attr_paths[1]) = "OneToManyFetcher")
    => (pc = "returned" /\ queries = 1)

C1_Witness ==
    /\ pc = "returned"
    /\ Len(entities) >= 2
    /\ attr_paths = <<Plain(Attr("children"))>>
    /\ queries = 1
    /\ \A e \in Range(entities) : Loaded("Parent", e, "children").val # <<>>

\* C2: once populate() has run for a single-hop specifier, every entity of
\* the batch has the attribute loaded; a one-to-many attribute holds exactly
\* the related rows whose remote column equals the entity's local key, each
\* once; an entity without matching rows holds the empty list (to-many) or
\* None (to-one).
C2_EveryEntityPopulated ==
    \A j \in DOMAIN attr_paths :
        (Populated(j) /\ IsRelPath(attr_paths[j])) =>
            \A e \in Range(entities) :
                LET prop == Property(KeyOf(attr_paths[j]))
                    a == Loaded(root_model, e, prop.key)
                    lk == Col(root_model, e, prop.local)
                    rows == {r \in Ids(prop.target) :
                               Col(prop.target, r, prop.remote) = lk}
                    links == {i \in DOMAIN db.tag : TagPairs(prop)[i].parent_id = lk}
                IN /\ a.kind # "unset"
                   /\ FetcherClass(prop) = "OneToManyFetcher" =>
                        /\ a.kind = "list"
                        /\ Range(a.val) = rows
                        /\ Len(a.val) = Cardinality(rows)
                   /\ (FetcherClass(prop) = "ManyToManyFetcher" /\ links = {}) =>
                        a = [kind |-> "list", val |-> <<>>]
                   /\ (FetcherClass(prop) = "ManyToOneFetcher" /\ lk \notin Ids(prop.target)) =>
                        a = [kind |-> "none", val |-> <<>>]

C2_Witness ==
    /\ pc = "returned"
    /\ attr_paths = <<Plain(Str(<<"children">>))>>
    /\ \E e1, e2 \in Range(entities) :
          /\ Len(Loaded("Parent", e1, "children").val) = NChildren
          /\ Loaded("Parent", e2, "children") = [kind |-> "list", val |-> <<>>]

\* C6: a many-to-many attribute holds each related entity once per
\* association row that links it to the parent: as many times as there are
\* such rows, and not at all when there is none.
C6_OncePerAssociationRow ==
    \A j \in DOMAIN attr_paths :
        (/\ Populated(j)
         /\ IsRelPath(attr_paths[j])
         /\ ClsOf(attr_paths[j]) = "ManyToManyFetcher") =>
            \A e \in Range(entities) :
                LET prop == Property(KeyOf(attr_paths[j]))
                    a == Loaded(root_model, e, prop.key)
                IN /\ a.kind = "list"
                   /\ \A c \in Ids(prop.target) :
                         Count(c, a.val) =
                           Cardinality({i \in DOMAIN db.tag :
                                          /\ TagPairs(prop)[i].parent_id = e
                                          /\ TagPairs(prop)[i].entity = c})

C6_Witness ==
    /\ pc = "returned"
    /\ attr_paths = <<Plain(Str(<<"tags">>))>>
    /\ db.tag = <<[p_id |-> 1, c_id |-> 2], [p_id |-> 1, c_id |-> 2]>>
    /\ Loaded("Parent", 1, "tags") = [kind |-> "list", val |-> <<2, 2>>]
    /\ Loaded("Parent", 2, "tags") = [kind |-> "list", val |-> <<>>]

\* C7: a many-to-one attribute holds what a lazy load of that entity alone
\* would yield: the related row whose key equals the entity's foreign key,
\* None when the foreign key is NULL or matches no row.
C7_ManyToOneAsLazyLoad ==
    \A j \in DOMAIN attr_paths :
        (/\ Populated(j)
         /\ IsRelPath(attr_paths[j])
         /\ ClsOf(attr_paths[j]) = "ManyToOneFetcher") =>
            \A e \in Range(entities) :
                LET fk == db.child[e].parent_id IN
                Loaded("Child", e, "parent") =
                    IF fk \in PIds THEN [kind |-> "one", val |-> <<fk>>]
                    ELSE [kind |-> "none", val |-> <<>>]

C7_Witness ==
    /\ pc = "returned"
    /\ attr_paths = <<Plain(Str(<<"parent">>))>>
    /\ Len(entities) = NChildren
    /\ Loaded("Child", 1, "parent") = [kind |-> "one", val |-> <<2>>]
    /\ db.child[2].parent_id = NParents + 1
    /\ Loaded("Child", 2, "parent") = [kind |-> "none", val |-> <<>>]

\* C8: a call with an empty entity list returns at once, whatever its
\* specifiers: no query, no error, no attribute or fetcher touched.
C8_EmptyBatchIsNoOp ==
    (pc # "call" /\ entities = <<>>) =>
        /\ pc = "returned"
        /\ err = ""
        /\ queries = 0
        /\ gets = 0
        /\ attrs = InitAttrs
        /\ fetchers = <<>>
        /\ log = <<>>

C8_Witness ==
    /\ pc = "returned"
    /\ entities = <<>>
    /\ attr_paths = <<Plain(Other)>>
    /\ queries = 0

\* C9: parsing a specifier that names a scalar column raises the
\* not-a-relationship error at once: the step issues no query and leaves
\* every attribute as it was.
C9_ScalarColumnRaisesFirst ==
    [][(pc = "parse" /\ IsScalarPath(attr_paths[k])) =>
          /\ pc' = "raised"
          /\ err' = "NotARelationship"
          /\ queries' = queries
          /\ gets' = gets
          /\ attrs' = attrs]_vars

C9_Witness ==
    /\ pc = "raised"
    /\ err = "NotARelationship"
    /\ attr_paths = <<Plain(Str(<<"children">>)), Plain(Str(<<"rank">>))>>
    /\ Len(entities) = NParents
    /\ queries = 1
    /\ Loaded("Parent", 1, "children").val # <<>>

Ops == <<"parse", "fetch", "populate">>

\* C10: the specifiers are processed in the order given, each parsed,
\* fetched and populated before the next one starts; a return means every
\* specifier was processed; after a raise at specifier k nothing more runs,
\* the attributes the earlier specifiers populated are still loaded, and
\* plain relationship specifiers cost one query each, repeated or not.
C10_InOrderNoRollback ==
    /\ \A i \in DOMAIN log :
          log[i] = <<Ops[((i - 1) % 3) + 1], ((i - 1) \div 3) + 1>>
    /\ (pc = "returned" /\ entities # <<>>) => Len(log) = 3 * Len(attr_paths)
    /\ pc = "raised" =>
          /\ ~ENABLED Next
          /\ log # <<>>
          /\ log[Len(log)][2] = k
          /\ \A j \in 1..(k - 1) :
                IsRelPath(attr_paths[j]) =>
                    \A e \in Range(entities) :
                        Loaded(root_model, e, KeyOf(attr_paths[j])).kind # "unset"
    /\ (/\ pc = "returned"
        /\ entities # <<>>
        /\ \A j \in DOMAIN attr_paths :
              IsRelPath(attr_paths[j]) /\ ~attr_paths[j].backrefs)
       => queries = Len(attr_paths)

C10_Witness ==
    /\ pc = "raised"
    /\ k = 2
    /\ attr_paths[1] = Plain(Str(<<"children">>))
    /\ attr_paths[2] = Plain(Other)
    /\ Len(entities) = NParents
    /\ \A e \in Range(entities) : Loaded("Parent", e, "children").kind = "list"
    /\ queries = 1

\* C5 as stated: after "a" then "a.b" on a non-empty batch, the call has
\* returned, the last hop ran on the union of the "a" values of all roots
\* (lists flattened, None skipped) with one query, and every entity of that
\* union has "b" loaded.
C5_DottedOverUnion ==
    (/\ Finished
     /\ entities # <<>>
     /\ Len(attr_paths) = 2
     /\ k = 2
     /\ IsRelPath(attr_paths[1])
     /\ ~attr_paths[2].composite
     /\ attr_paths[2].paths[1].kind = "str"
     /\ Len(attr_paths[2].paths[1].segs) = 2
     /\ attr_paths[2].paths[1].segs[1] = KeyOf(attr_paths[1])
     /\ attr_paths[2].paths[1].segs[2]
           \in Relationships(Property(KeyOf(attr_paths[1])).target))
    => LET a == KeyOf(attr_paths[1])
           b == attr_paths[2].paths[1].segs[2]
           union == UNION {Range(Loaded(root_model, e, a).val) : e \in Range(entities)}
       IN /\ pc = "returned"
          /\ Range(fetchers[1].entities) = union
          /\ queries = 2
          /\ \A u \in union : Loaded(Property(a).target, u, b).kind # "unset"

\* What populate() assigns to `entity` when relationship `key` is fetched by
\* a fetcher of its own.
AloneValue(key, entity) ==
    PopulatedValue(
        CoordinatorFetch(Plain(Str(<<key>>)),
                         <<NewFetcher(entities, root_model, Property(key), FALSE)>>,
                         0).fetchers[1],
        entity)

IsSiblingPair(p) ==
    /\ p.composite
    /\ ~p.backrefs
    /\ Len(p.paths) = 2
    /\ \A i \in 1..2 :
          /\ p.paths[i].kind \in {"str", "attr"}
          /\ Len(p.paths[i].segs) = 1
          /\ p.paths[i].segs[1] \in Relationships(root_model)
    /\ Property(p.paths[1].segs[1]).target = Property(p.paths[2].segs[1]).target

SiblingsAsAlone(p) ==
    /\ pc = "returned"
    /\ queries = 1
    /\ \A i \in 1..2 : \A e \in Range(entities) :
          Loaded(root_model, e, p.paths[i].segs[1]) = AloneValue(p.paths[i].segs[1], e)

\* C3 as stated: a CompositePath of two sibling paths with the same related
\* class costs one query, and every parent gets for each sibling attribute
\* the value that sibling would get when fetched alone.
C3_CompositeAsAlone ==
    (/\ Finished
     /\ entities # <<>>
     /\ Len(attr_paths) = 1
     /\ IsSiblingPair(attr_paths[1]))
    => SiblingsAsAlone(attr_paths[1])

\* The same for siblings that are one-to-many or many-to-one: this part of
\* C3 holds.
C3_WithoutManyToMany ==
    (/\ Finished
     /\ entities # <<>>
     /\ Len(attr_paths) = 1
     /\ IsSiblingPair(attr_paths[1])
     /\ \A i \in 1..2 : ~Property(attr_paths[1].paths[i].segs[1]).secondary)
    => SiblingsAsAlone(attr_paths[1])

\* A sibling received a row that only the other sibling's condition matched.
C3_CrossRowSeen ==
    /\ pc = "returned"
    /\ attr_paths = <<CompositePath(<<Str(<<"children">>), Str(<<"others">>)>>)>>
    /\ entities = <<1>>
    /\ db.child[1] = [parent_id |-> 2, other_id |-> 1]
    /\ fetchers[1].parent_dict[2] = <<1>>
    /\ Loaded("Parent", 1, "children") = [kind |-> "list", val |-> <<>>]
    /\ Loaded("Parent", 1, "others") = [kind |-> "list", val |-> <<1>>]

\* C4 as stated: after a to-many specifier wrapped in with_backrefs, the call
\* has returned, every fetched child's inverse attribute holds exactly the
\* parents related to it, and the parents cost one query more than the fetch.
C4_BackrefsInOneQuery ==
    (/\ Finished
     /\ entities # <<>>
     /\ Len(attr_paths) = 1
     /\ IsRelPath(attr_paths[1])
     /\ attr_paths[1].backrefs
     /\ ClsOf(attr_paths[1]) \in {"OneToManyFetcher", "ManyToManyFetcher"})
    => LET prop == Property(KeyOf(attr_paths[1]))
           fetched == UNION {Range(Loaded(root_model, e, prop.key).val) :
                               e \in Range(entities)}
           parents(c) == {p \in Ids(root_model) :
                            Count(c, LazyLoad(root_model, p, prop.key).val) > 0}
       IN /\ pc = "returned"
          /\ queries = 2
          /\ \A c \in fetched :
                /\ Loaded(prop.target, c, prop.back_populates).kind = "list"
                /\ Range(Loaded(prop.target, c, prop.back_populates).val) = parents(c)

====
